---- MODULE Spec2Model ----
(***************************************************************************)
(* The step-transition engine of the nitrite -> nitrosamine visualisation. *)
(*                                                                         *)
(* src/static/script.js declares several functions more than once; in a    *)
(* classic script the LAST declaration of a name is the one every caller   *)
(* gets.  The engine that runs is therefore                                *)
(*     showStep                (line 4213)                                 *)
(*     showStepImplementation  (line 3602, never called by the program)    *)
(*     transitionBetweenSteps  (line 3964)                                 *)
(*     nextStep / previousStep (lines 4243 / 4287)                         *)
(* and init() (line 362) calls createMolecules() and showStep(0).          *)
(*                                                                         *)
(* Delays are counted in units of 50 ms, the greatest common divisor of    *)
(* every delay the engine uses (750, 900, 1000, 1200, 2000, 5000 and       *)
(* 10000 ms).  Camera motion and the geometry of atoms are not modelled:   *)
(* no engine decision reads them.                                          *)
(***************************************************************************)
EXTENDS Integers, FiniteSets, TLC

VARIABLES
    currentStep,        \* let currentStep            (script.js:13)
    animationPlaying,   \* let animationPlaying, the busy flag (script.js:15)
    groupVisible,       \* molecules[key].group.visible
    flagVisible,        \* molecules[key].visible (the wrapper's own field)
    opacity,            \* material opacity of a molecule's meshes: 0, 1 or Partial
    timers,             \* pending setTimeout callbacks, timeline callbacks and tweens
    resetTimeout,       \* window.animationResetTimeout: id of the last armed watchdog
    effects,            \* transient effect objects attached to the scene
    uiStep,             \* step shown by title, indicator, context and buttons
    uiDataKey,          \* species shown by the molecular-properties panel
    prevDisabled,       \* #prev-btn disabled
    nextDisabled,       \* #next-btn disabled
    last,               \* history: the operation that produced this state
    calls,              \* history: number of counted requests made so far
    faults              \* history: number of completion callbacks prevented so far

vars == << currentStep, animationPlaying, groupVisible, flagVisible, opacity,
           timers, resetTimeout, effects, uiStep, uiDataKey, prevDisabled,
           nextDisabled, last, calls, faults >>

\* Everything the program itself holds: the state without the history variables.
progVars == << currentStep, animationPlaying, groupVisible, flagVisible, opacity,
               timers, resetTimeout, effects, uiStep, uiDataKey, prevDisabled,
               nextDisabled >>

uiVars == << uiStep, uiDataKey, prevDisabled, nextDisabled >>

progVarsButTimers == << currentStep, animationPlaying, groupVisible, flagVisible,
                        opacity, resetTimeout, effects, uiStep, uiDataKey,
                        prevDisabled, nextDisabled >>

(***************************************************************************)
(* Bounds of the model                                                     *)
(***************************************************************************)
\* Requests (clicks and direct calls) per behaviour of Spec.
MaxCalls == 2
\* Completion callbacks that are prevented from firing per behaviour.
MaxFaults == 1

(***************************************************************************)
(* Program constants                                                       *)
(***************************************************************************)
totalSteps == 3
\* setTimeout delays of transitionBetweenSteps, in 50 ms units
SwapDelay == 18          \* duration * 0.6 * 1000 = 900 ms
FadeInDelay == 15        \* duration * 0.5 * 1000 = 750 ms
CompleteDelay == 18      \* duration * 0.6 * 1000 = 900 ms, armed by the fade-in callback
FadeDuration == 18       \* gsap.to(..., duration: duration * 0.6) = 0.9 s
StaggerOut == 1          \* delay: Math.random() * 0.1  -> up to 1 whole unit
StaggerIn == 2           \* delay: Math.random() * 0.15 -> up to 2 whole units
WatchdogDelay == 100     \* 5000 ms
\* delays of showStepImplementation, in 50 ms units
ImplWatchdogDelay == 200 \* 10000 ms
ImplFadeOutAt == 8       \* timeline position 0.4: the source starts to fade
ImplFadeOutLen == 12     \* duration 0.6
ImplSwapAt == 20         \* timeline position 1.0: hide the source, show the target
ImplFadeInAt == 24       \* timeline position 1.2: start the fade-in tweens
ImplFadeInLen == 16      \* duration 0.8
ImplEndAt == 40          \* timeline position 2.0: clean-up callback, then onComplete
FrameLag == 1            \* a detached tween starts on the frame after the callback
\* an opacity strictly between 0 and 1
Partial == 2

Species == {"sodiumNitrite", "nitrousAcid", "decomposed", "nitrosamine"}
Keys == Species \cup {"stomach", "protein"}

\* The steps a direct caller may pass: the four steps and one value past each end.
Targets == (0 - 1) .. (totalSteps + 1)

\* a table in which two steps share a key and the default has none
getDataKeyForStepMerged(step) ==
    CASE step = 0 -> "sodiumNitrite"
      [] step \in {1, 2} -> "nitrousAcid"
      [] step \in {3, 4} -> "nitrosamine"
      [] OTHER    -> "none"

getDataKeyForStep(step) ==
    CASE step = 0 -> "sodiumNitrite"
      [] step = 1 -> "nitrousAcid"
      [] step = 2 -> "decomposed"
      [] step = 3 -> "nitrosamine"
      [] step = 4 -> "nitrosamine"
      [] OTHER    -> "sodiumNitrite"

(***************************************************************************)
(* Timers.  A record of `timers` is one pending callback:                  *)
(*   kind  "swap" | "fadeIn" | "complete" | "watchdog" | "tween"           *)
(*   tid   the engine call that armed it                                   *)
(*   from, to   the steps of that call                                     *)
(*   key, target   for a tween: the species and the opacity it ends at     *)
(*   run   for a tween: the length of its active part (it waits before)    *)
(*   left  units of time until it is due                                   *)
(***************************************************************************)
Timer(kind, tid, from, to, key, target, left) ==
    [kind |-> kind, tid |-> tid, from |-> from, to |-> to,
     key |-> key, target |-> target, run |-> 0, left |-> left]

Tween(tid, from, to, key, target, run, left) ==
    [kind |-> "tween", tid |-> tid, from |-> from, to |-> to,
     key |-> key, target |-> target, run |-> run, left |-> left]

MaxTid == MaxCalls + MaxFaults + 3

\* A fresh identity for an engine call: the least one no pending callback and
\* no attached effect object still carries.
NewTid(ts, fx) ==
    CHOOSE i \in 1 .. MaxTid :
        /\ i \notin ({t.tid : t \in ts} \cup {e[1] : e \in fx})
        /\ \A j \in 1 .. (i - 1) : j \in ({t.tid : t \in ts} \cup {e[1] : e \in fx})

\* a start that arms its safety timeout without clearing the previous one
KeepWatchdog(ts, h) == ts

\* clearTimeout(window.animationResetTimeout)
ClearWatchdog(ts, h) == {t \in ts : ~(t.kind = "watchdog" /\ t.tid = h)}

Due(t) == t.left = 0

\* The history record of an operation: its name, its argument (the requested
\* step, or the target of the callback's transition), currentStep and the busy
\* flag as they were when it began, and the operation that came before it.
Did(op, arg) ==
    [op |-> op, arg |-> arg, was |-> currentStep, busy |-> animationPlaying,
     prevOp |-> last.op, prevWas |-> last.was]

(***************************************************************************)
(* UI sync layer: updateStepTitle, updateStepIndicator,                    *)
(* updateNavigationButtons, updateMoleculeData, updateScientificContext    *)
(***************************************************************************)
\* a previous button that, once disabled, stays disabled
PrevStaysDisabled(step) == prevDisabled \/ step = 0

PrevDisabledFor(step) == step = 0

\* a next button that is never disabled
NextNeverDisabled(step) == FALSE

NextDisabledFor(step) == step = totalSteps

UpdateUI(step, dataKey) ==
    /\ uiStep' = step
    /\ uiDataKey' = dataKey
    /\ prevDisabled' = PrevDisabledFor(step)
    /\ nextDisabled' = NextDisabledFor(step)

(***************************************************************************)
(* Init: the state init() leaves.  createMolecules() builds the six        *)
(* groups with only sodiumNitrite visible; showStep(0) then shows          *)
(* sodiumNitrite alone and sets the UI to step 0; the first animate()      *)
(* frame makes the stomach visible.                                        *)
(***************************************************************************)
Init ==
    /\ currentStep = 0
    /\ animationPlaying = FALSE
    /\ groupVisible = [k \in Keys |-> k \in {"sodiumNitrite", "stomach"}]
    /\ flagVisible = [k \in Keys |-> k \in {"sodiumNitrite", "stomach"}]
    /\ opacity = [k \in Keys |-> 1]
    /\ timers = {}
    /\ resetTimeout = 0
    /\ effects = {}
    /\ uiStep = 0
    /\ uiDataKey = "sodiumNitrite"
    /\ prevDisabled = TRUE
    /\ nextDisabled = FALSE
    /\ last = [op |-> "init", arg |-> 0, was |-> 0, busy |-> FALSE,
               prevOp |-> "none", prevWas |-> 0]
    /\ calls = 0
    /\ faults = 0

(***************************************************************************)
(* transitionBetweenSteps(fromStep, toStep)                                *)
(***************************************************************************)
\* the visibility loop of lines 3975-3991
StartVisible(fromKey) == [k \in Keys |-> k = fromKey]

\* a start that resets the opacity of the source only
StartOpacitySourceOnly(fromKey, toKey) ==
    [k \in Keys |-> IF k = fromKey THEN 1 ELSE opacity[k]]

\* opacity after lines 3975-3991 and the reset of the target at 4141-4146
StartOpacity(fromKey, toKey) ==
    [k \in Keys |->
        IF k = toKey THEN 0
        ELSE IF k = fromKey THEN 1
        ELSE opacity[k]]

\* a transition that clears the previous safety timeout and arms none
transitionBetweenStepsUnwatched(fromStep, toStep) ==
    LET fromKey == getDataKeyForStep(fromStep)
        toKey   == getDataKeyForStep(toStep)
        kept    == ClearWatchdog(timers, resetTimeout)
        tid     == NewTid(kept, effects)
    IN  /\ animationPlaying' = TRUE
        /\ groupVisible' = StartVisible(fromKey)
        /\ opacity' = StartOpacity(fromKey, toKey)
        /\ effects' = effects \cup {<<tid, "particles">>}
        /\ \E d \in {0, StaggerOut} :
              timers' = kept \cup
                { Tween(tid, fromStep, toStep, fromKey, 0, FadeDuration, FadeDuration + d),
                  Timer("swap", tid, fromStep, toStep, fromKey, 0, SwapDelay),
                  Timer("fadeIn", tid, fromStep, toStep, toKey, 1, FadeInDelay) }
        /\ resetTimeout' = tid
        /\ UNCHANGED << flagVisible, uiVars >>

transitionBetweenSteps(fromStep, toStep) ==
    LET fromKey == getDataKeyForStep(fromStep)
        toKey   == getDataKeyForStep(toStep)
        kept    == ClearWatchdog(timers, resetTimeout)
        tid     == NewTid(kept, effects)
    IN  /\ animationPlaying' = TRUE
        /\ groupVisible' = StartVisible(fromKey)
        /\ opacity' = StartOpacity(fromKey, toKey)
        /\ effects' = effects \cup {<<tid, "particles">>}
        /\ \E d \in {0, StaggerOut} :
              timers' = kept \cup
                { Tween(tid, fromStep, toStep, fromKey, 0, FadeDuration, FadeDuration + d),
                  Timer("swap", tid, fromStep, toStep, fromKey, 0, SwapDelay),
                  Timer("fadeIn", tid, fromStep, toStep, toKey, 1, FadeInDelay),
                  Timer("watchdog", tid, fromStep, toStep, toKey, 0, WatchdogDelay) }
        /\ resetTimeout' = tid
        /\ UNCHANGED << flagVisible, uiVars >>

(***************************************************************************)
(* nextStep() and previousStep(): the click handlers of the two buttons    *)
(***************************************************************************)
\* nextStep() without the test of line 4250
nextStepBodyUnclamped ==
    IF animationPlaying
      THEN UNCHANGED progVars
      ELSE /\ currentStep' = currentStep + 1
           /\ transitionBetweenSteps(currentStep, currentStep + 1)

\* previousStep() without the test of line 4294
previousStepBodyUnclamped ==
    IF animationPlaying
      THEN UNCHANGED progVars
      ELSE /\ currentStep' = currentStep - 1
           /\ transitionBetweenSteps(currentStep, currentStep - 1)

\* nextStep() that also returns when #next-btn is disabled
nextStepBodyChecksButton ==
    IF animationPlaying \/ nextDisabled
      THEN UNCHANGED progVars
      ELSE IF currentStep < totalSteps
        THEN /\ currentStep' = currentStep + 1
             /\ transitionBetweenSteps(currentStep, currentStep + 1)
        ELSE UNCHANGED progVars

nextStepBody ==
    IF animationPlaying
      THEN UNCHANGED progVars
      ELSE IF currentStep < totalSteps
        THEN /\ currentStep' = currentStep + 1
             /\ transitionBetweenSteps(currentStep, currentStep + 1)
        ELSE UNCHANGED progVars

previousStepBody ==
    IF animationPlaying
      THEN UNCHANGED progVars
      ELSE IF currentStep > 0
        THEN /\ currentStep' = currentStep - 1
             /\ transitionBetweenSteps(currentStep, currentStep - 1)
        ELSE UNCHANGED progVars

\* a click on #next-btn / #prev-btn
nextStep ==
    /\ last' = Did("nextStep", 0)
    /\ UNCHANGED << calls, faults >>
    /\ nextStepBody

previousStep ==
    /\ last' = Did("previousStep", 0)
    /\ UNCHANGED << calls, faults >>
    /\ previousStepBody

(***************************************************************************)
(* The callbacks transitionBetweenSteps arms                               *)
(***************************************************************************)
\* a swap callback that shows the target and leaves the source as it is
SwapTimerKeepsSource ==
    \E t \in timers :
        /\ t.kind = "swap" /\ Due(t)
        /\ groupVisible' = [groupVisible EXCEPT ![getDataKeyForStep(t.to)] = TRUE]
        /\ timers' = timers \ {t}
        /\ last' = Did("swap", t.to)
        /\ UNCHANGED << currentStep, animationPlaying, flagVisible, opacity,
                        resetTimeout, effects, uiVars, calls, faults >>

\* lines 4120-4129: hide the source, show the target
SwapTimer ==
    \E t \in timers :
        /\ t.kind = "swap" /\ Due(t)
        /\ groupVisible' =
              [groupVisible EXCEPT ![getDataKeyForStep(t.from)] = FALSE,
                                   ![getDataKeyForStep(t.to)] = TRUE]
        /\ timers' = timers \ {t}
        /\ last' = Did("swap", t.to)
        /\ UNCHANGED << currentStep, animationPlaying, flagVisible, opacity,
                        resetTimeout, effects, uiVars, calls, faults >>

\* lines 4149-4177: start the fade-in tweens and arm the completion handler
FadeInTimer ==
    \E t \in timers :
        /\ t.kind = "fadeIn" /\ Due(t)
        /\ \E d \in {0, StaggerIn} :
              timers' = (timers \ {t}) \cup
                { Tween(t.tid, t.from, t.to, t.key, 1, FadeDuration, FadeDuration + d),
                  Timer("complete", t.tid, t.from, t.to, t.key, 1, CompleteDelay) }
        /\ last' = Did("fadeIn", t.to)
        /\ UNCHANGED << currentStep, animationPlaying, groupVisible, flagVisible,
                        opacity, resetTimeout, effects, uiVars, calls, faults >>

\* lines 4163-4176: the completion handler
CompleteTimer ==
    \E t \in timers :
        /\ t.kind = "complete" /\ Due(t)
        /\ UpdateUI(t.to, getDataKeyForStep(t.to))
        /\ effects' = effects \ {<<t.tid, "particles">>}
        /\ animationPlaying' = FALSE
        /\ timers' = timers \ {t}
        /\ last' = Did("complete", t.to)
        /\ UNCHANGED << currentStep, groupVisible, flagVisible, opacity,
                        resetTimeout, calls, faults >>

\* a safety timeout that only logs
WatchdogBodyKeepsBusy == UNCHANGED animationPlaying

\* a safety timeout that flips the flag
WatchdogBodyToggles == animationPlaying' = ~animationPlaying

\* lines 4206-4209 and 3643-3647: the safety timeout
WatchdogBody == animationPlaying' = FALSE

WatchdogTimer ==
    \E t \in timers :
        /\ t.kind = "watchdog" /\ Due(t)
        /\ WatchdogBody
        /\ timers' = timers \ {t}
        /\ last' = Did("watchdog", t.to)
        /\ UNCHANGED << currentStep, groupVisible, flagVisible, opacity,
                        resetTimeout, effects, uiVars, calls, faults >>

\* a gsap opacity tween reaches its end value
TweenDone ==
    \E t \in timers :
        /\ t.kind = "tween" /\ Due(t)
        /\ opacity' = [opacity EXCEPT ![t.key] = t.target]
        /\ timers' = timers \ {t}
        /\ last' = Did("tweenDone", t.to)
        /\ UNCHANGED << currentStep, animationPlaying, groupVisible, flagVisible,
                        resetTimeout, effects, uiVars, calls, faults >>

\* one more request of a bounded run
Counted ==
    /\ calls < MaxCalls
    /\ calls' = calls + 1
    /\ UNCHANGED faults

(***************************************************************************)
(* showStep(step), line 4213: "now just used for the initial state setup"  *)
(***************************************************************************)
\* a loop that shows the requested group and hides none
ShownBeside(dataKey) == [k \in Keys |-> groupVisible[k] \/ k = dataKey]

\* the visibility loop of lines 4224-4228
ShownAlone(dataKey) == [k \in Keys |-> k = dataKey]

\* the guard of lines 4215-4218
showStepIgnores == animationPlaying

showStepBody(step) ==
    IF showStepIgnores
      THEN UNCHANGED progVars
      ELSE /\ groupVisible' = ShownAlone(getDataKeyForStep(step))
           /\ currentStep' = step
           /\ UpdateUI(step, getDataKeyForStep(step))
           /\ UNCHANGED << animationPlaying, flagVisible, opacity, timers,
                           resetTimeout, effects >>

\* a direct, programmatic call
showStep(step) ==
    /\ Counted
    /\ last' = Did("showStep", step)
    /\ showStepBody(step)

(***************************************************************************)
(* showStepImplementation(step), line 3602.  Nothing in script.js calls    *)
(* it; it is a global function, so a direct call is possible.              *)
(***************************************************************************)
\* line 3604
OutOfRange(step) == step < 0 \/ step > totalSteps

\* hideAllMolecules() and line 3932: only the wrappers' own field is written
SimpleDisplayFlags(newKey) == [k \in Keys |-> k = newKey]

\* the full animation of lines 3691-3922
ImplTransition(step) ==
    LET prevKey == getDataKeyForStep(currentStep)
        newKey  == getDataKeyForStep(step)
        kept    == ClearWatchdog(timers, resetTimeout)
        tid     == NewTid(kept, effects)
    IN  /\ animationPlaying' = TRUE
        /\ flagVisible' = [flagVisible EXCEPT !["stomach"] = TRUE]
        \* 3705/3714 and again 3751/3756: source shown, then target hidden
        /\ groupVisible' = [groupVisible EXCEPT !["stomach"] = TRUE,
                                                ![prevKey] = TRUE,
                                                ![newKey] = FALSE]
        /\ effects' = effects \cup {<<tid, "transitionParticles">>,
                                    <<tid, "centerParticles">>,
                                    <<tid, "flash">>}
        /\ timers' = kept \cup
             { Timer("watchdog", tid, currentStep, step, newKey, 0, ImplWatchdogDelay),
               Tween(tid, currentStep, step, prevKey, 0, ImplFadeOutLen,
                     ImplFadeOutAt + ImplFadeOutLen),
               Timer("tlSwap", tid, currentStep, step, newKey, 0, ImplSwapAt),
               Timer("tlFadeIn", tid, currentStep, step, newKey, 1, ImplFadeInAt),
               Timer("tlCleanup", tid, currentStep, step, newKey, 0, ImplEndAt),
               Timer("tlComplete", tid, currentStep, step, newKey, 0, ImplEndAt) }
        /\ resetTimeout' = tid
        /\ UpdateUI(step, newKey)
        /\ UNCHANGED << currentStep, opacity >>

\* the simple display of lines 3923-3942
ImplSimpleDisplay(step) ==
    LET newKey == getDataKeyForStep(step)
        kept   == ClearWatchdog(timers, resetTimeout)
        tid    == NewTid(kept, effects)
    IN  /\ animationPlaying' = FALSE
        /\ flagVisible' = SimpleDisplayFlags(newKey)
        /\ groupVisible' = [groupVisible EXCEPT !["stomach"] = TRUE]
        /\ timers' = kept \cup
             { Timer("watchdog", tid, currentStep, step, newKey, 0, ImplWatchdogDelay) }
        /\ resetTimeout' = tid
        /\ UpdateUI(step, newKey)
        /\ UNCHANGED << currentStep, opacity, effects >>

showStepImplementationBody(step) ==
    IF OutOfRange(step)
      THEN UNCHANGED progVars
      ELSE IF step # currentStep
        THEN ImplTransition(step)
        ELSE ImplSimpleDisplay(step)

\* a direct, programmatic call
showStepImplementation(step) ==
    /\ Counted
    /\ last' = Did("showStepImplementation", step)
    /\ showStepImplementationBody(step)

\* the same two click handlers, counted among the requests of a bounded run
callNextStep ==
    /\ Counted
    /\ last' = Did("nextStep", 0)
    /\ nextStepBody

callPreviousStep ==
    /\ Counted
    /\ last' = Did("previousStep", 0)
    /\ previousStepBody

(***************************************************************************)
(* The callbacks of showStepImplementation's timeline                      *)
(***************************************************************************)
\* lines 3873-3892
TlSwap ==
    \E t \in timers :
        /\ t.kind = "tlSwap" /\ Due(t)
        /\ groupVisible' =
              [groupVisible EXCEPT ![getDataKeyForStep(t.from)] = FALSE,
                                   ![getDataKeyForStep(t.to)] = TRUE]
        /\ opacity' = [opacity EXCEPT ![getDataKeyForStep(t.to)] = 0]
        /\ timers' = timers \ {t}
        /\ last' = Did("tlSwap", t.to)
        /\ UNCHANGED << currentStep, animationPlaying, flagVisible,
                        resetTimeout, effects, uiVars, calls, faults >>

\* lines 3905-3915
TlFadeIn ==
    \E t \in timers :
        /\ t.kind = "tlFadeIn" /\ Due(t)
        /\ \E d \in {0, FrameLag} :
              timers' = (timers \ {t}) \cup
                { Tween(t.tid, t.from, t.to, t.key, 1, ImplFadeInLen, ImplFadeInLen + d) }
        /\ last' = Did("tlFadeIn", t.to)
        /\ UNCHANGED << currentStep, animationPlaying, groupVisible, flagVisible,
                        opacity, resetTimeout, effects, uiVars, calls, faults >>

\* a cleanup that removes the centre particles and leaves the flash
TlCleanupLeavesFlash ==
    \E t \in timers :
        /\ t.kind = "tlCleanup" /\ Due(t)
        /\ effects' = effects \ {<<t.tid, "centerParticles">>}
        /\ timers' = timers \ {t}
        /\ last' = Did("tlCleanup", t.to)
        /\ UNCHANGED << currentStep, animationPlaying, groupVisible, flagVisible,
                        opacity, resetTimeout, uiVars, calls, faults >>

\* lines 3919-3922
TlCleanup ==
    \E t \in timers :
        /\ t.kind = "tlCleanup" /\ Due(t)
        /\ effects' = effects \ {<<t.tid, "flash">>, <<t.tid, "centerParticles">>}
        /\ timers' = timers \ {t}
        /\ last' = Did("tlCleanup", t.to)
        /\ UNCHANGED << currentStep, animationPlaying, groupVisible, flagVisible,
                        opacity, resetTimeout, uiVars, calls, faults >>

\* onComplete, lines 3721-3737; it runs after the timeline's last callback
TlComplete ==
    \E t \in timers :
        /\ t.kind = "tlComplete" /\ Due(t)
        /\ ~ \E c \in timers : c.kind = "tlCleanup" /\ c.tid = t.tid
        /\ groupVisible' =
              [groupVisible EXCEPT ![getDataKeyForStep(t.from)] = FALSE,
                                   ![getDataKeyForStep(t.to)] = TRUE]
        /\ effects' = effects \ {<<t.tid, "transitionParticles">>}
        /\ animationPlaying' = FALSE
        /\ currentStep' = t.to
        /\ timers' = timers \ {t}
        /\ last' = Did("tlComplete", t.to)
        /\ UNCHANGED << flagVisible, opacity, resetTimeout, uiVars,
                        calls, faults >>

(***************************************************************************)
(* A completion callback that never fires.  The completion handler of      *)
(* transitionBetweenSteps is armed inside the fade-in callback (line 4163) *)
(* and onComplete belongs to a gsap timeline (line 3720): a callback that  *)
(* throws before arming it, or a killed timeline, leaves the watchdog as   *)
(* the only thing that can clear the busy flag.                            *)
(***************************************************************************)
CompletionLost ==
    \E t \in timers :
        /\ t.kind \in {"fadeIn", "complete", "tlComplete"} /\ Due(t)
        /\ faults < MaxFaults
        /\ faults' = faults + 1
        /\ timers' = timers \ {t}
        /\ last' = Did("completionLost", t.to)
        /\ UNCHANGED << progVarsButTimers, calls >>

(***************************************************************************)
(* Time.  When no callback is due the clock advances to the earliest due   *)
(* time; calls and clicks are made at those instants, before or after the  *)
(* callbacks due there.  A tween that has started and not ended holds the  *)
(* opacity of its species strictly between its start and end values.       *)
(* requestAnimationFrame runs animate() about every 16 ms and no two due   *)
(* times are closer than 50 ms, so a frame is rendered whenever the clock  *)
(* advances.                                                               *)
(***************************************************************************)
\* lines 4487-4490 of animate(): "Ensure stomach is always visible"
FrameVisible(vis) == [vis EXCEPT !["stomach"] = TRUE]

Step == CHOOSE n \in {t.left : t \in timers} :
            \A m \in {t.left : t \in timers} : n <= m

Tweening(k) ==
    \E t \in timers : /\ t.kind = "tween" /\ t.key = k
                      /\ t.left - Step > 0 /\ t.left - Step < t.run
                      /\ opacity[k] # t.target

Elapse ==
    /\ timers # {}
    /\ \A t \in timers : ~Due(t)
    /\ timers' = {[t EXCEPT !.left = t.left - Step] : t \in timers}
    /\ opacity' = [k \in Keys |-> IF Tweening(k) THEN Partial ELSE opacity[k]]
    /\ last' = Did("tick", 0)
    /\ UNCHANGED << currentStep, animationPlaying, resetTimeout, effects,
                    uiVars, calls, faults >>

Tick ==
    /\ Elapse
    /\ groupVisible' = FrameVisible(groupVisible)
    /\ flagVisible' = FrameVisible(flagVisible)

(***************************************************************************)
(* animate(): the per-frame render tick, lines 4478-4556                   *)
(***************************************************************************)
animate ==
    /\ groupVisible' = FrameVisible(groupVisible)
    /\ flagVisible' = FrameVisible(flagVisible)
    /\ UNCHANGED << currentStep, animationPlaying, opacity, timers, resetTimeout,
                    effects, uiVars, last, calls, faults >>

\* the callbacks and the frames
Callbacks ==
    \/ SwapTimer
    \/ FadeInTimer
    \/ CompleteTimer
    \/ WatchdogTimer
    \/ TweenDone
    \/ Tick
    \/ animate
    \/ CompletionLost

\* the callbacks of showStepImplementation's timeline
TimelineCallbacks ==
    \/ TlSwap
    \/ TlFadeIn
    \/ TlCleanup
    \/ TlComplete

(***************************************************************************)
(* The older revision of the engine, src/unnamed/part_000.  There every    *)
(* molecules[key] is the THREE.Group itself, so the group's visibility and *)
(* the wrapper's flag are one field; nextStep() and previousStep() change  *)
(* currentStep themselves and then call showStep(), a wrapper (line 3053)  *)
(* of showStepImplementation (line 2936); animate() (line 3279) writes no  *)
(* visibility.  The definitions of this revision carry the prefix part0_.  *)
(***************************************************************************)
\* transitionMolecules(from, to, duration = 1.5), in 50 ms units
Part0FadeOutLen == 24    \* duration * 0.8 = 1.2 s
Part0SwapAt == 24        \* timeline position duration * 0.8
Part0CleanupAt == 30     \* timeline position duration
Part0FadeInLen == 15     \* duration * 0.5 = 0.75 s

\* the state init() leaves: showStep(0) takes the simple display, which hides
\* every group (the stomach too), shows sodiumNitrite and arms the watchdog
part0_Init ==
    /\ currentStep = 0
    /\ animationPlaying = FALSE
    /\ groupVisible = [k \in Keys |-> k = "sodiumNitrite"]
    /\ flagVisible = [k \in Keys |-> k = "sodiumNitrite"]
    /\ opacity = [k \in Keys |-> 1]
    /\ timers = { Timer("watchdog", 1, 0, 0, "sodiumNitrite", 0, ImplWatchdogDelay) }
    /\ resetTimeout = 1
    /\ effects = {}
    /\ uiStep = 0
    /\ uiDataKey = "sodiumNitrite"
    /\ prevDisabled = TRUE
    /\ nextDisabled = FALSE
    /\ last = [op |-> "init", arg |-> 0, was |-> 0, busy |-> FALSE,
               prevOp |-> "none", prevWas |-> 0]
    /\ calls = 0
    /\ faults = 0

\* lines 2968-2978: hide every group but the two involved, show the source
part0_TransitionVisible(prevKey, newKey) ==
    [k \in Keys |-> IF k = prevKey THEN TRUE
                    ELSE IF k = newKey THEN groupVisible[k]
                    ELSE FALSE]

\* showStepImplementation(step) run when currentStep holds `cur`; the caller
\* says what becomes of currentStep, which this function never writes
part0_showStepImplementationBody(cur, step) ==
    LET prevKey == getDataKeyForStep(cur)
        newKey  == getDataKeyForStep(step)
        kept    == ClearWatchdog(timers, resetTimeout)
        tid     == NewTid(kept, effects)
        watchdog == Timer("watchdog", tid, cur, step, newKey, 0, ImplWatchdogDelay)
    IN  IF OutOfRange(step)
          THEN UNCHANGED << animationPlaying, groupVisible, flagVisible, opacity,
                            timers, resetTimeout, effects, uiVars >>
          ELSE /\ resetTimeout' = tid
               /\ UpdateUI(step, newKey)
               /\ UNCHANGED << opacity, effects >>
               /\ IF step # cur
                    THEN \* lines 2965-3012: the timeline, played from the next frame
                         /\ animationPlaying' = TRUE
                         /\ groupVisible' = part0_TransitionVisible(prevKey, newKey)
                         /\ flagVisible' = part0_TransitionVisible(prevKey, newKey)
                         /\ timers' = kept \cup
                              { watchdog,
                                Timer("p0Timeline", tid, cur, step, newKey, 0, 0) }
                    ELSE \* lines 3013-3032: the simple display
                         /\ animationPlaying' = FALSE
                         /\ groupVisible' = SimpleDisplayFlags(newKey)
                         /\ flagVisible' = SimpleDisplayFlags(newKey)
                         /\ timers' = kept \cup { watchdog }

\* showStep(step), line 3053: a direct, programmatic call
part0_showStep(step) ==
    /\ Counted
    /\ last' = Did("showStep", step)
    /\ UNCHANGED currentStep
    /\ part0_showStepImplementationBody(currentStep, step)

\* nextStep(), lines 3061-3071: currentStep++ comes before the call
part0_nextStepBody ==
    IF animationPlaying
      THEN UNCHANGED progVars
      ELSE IF currentStep < totalSteps
        THEN /\ currentStep' = currentStep + 1
             /\ part0_showStepImplementationBody(currentStep + 1, currentStep + 1)
        ELSE UNCHANGED progVars

\* previousStep(), lines 3100-3110
part0_previousStepBody ==
    IF animationPlaying
      THEN UNCHANGED progVars
      ELSE IF currentStep > 0
        THEN /\ currentStep' = currentStep - 1
             /\ part0_showStepImplementationBody(currentStep - 1, currentStep - 1)
        ELSE UNCHANGED progVars

part0_nextStep ==
    /\ last' = Did("nextStep", 0)
    /\ UNCHANGED << calls, faults >>
    /\ part0_nextStepBody

part0_previousStep ==
    /\ last' = Did("previousStep", 0)
    /\ UNCHANGED << calls, faults >>
    /\ part0_previousStepBody

\* The first frame of the timeline of lines 2981-3011.  Its only child is a
\* callback at position 0, so the same frame runs the callback, which calls
\* transitionMolecules (lines 194-307), and then onComplete (lines 2982-2997).
part0_timelineComplete ==
    \E t \in timers :
        /\ t.kind = "p0Timeline" /\ Due(t)
        /\ groupVisible' =
              [groupVisible EXCEPT ![getDataKeyForStep(t.from)] = FALSE,
                                   ![getDataKeyForStep(t.to)] = TRUE]
        /\ flagVisible' =
              [flagVisible EXCEPT ![getDataKeyForStep(t.from)] = FALSE,
                                  ![getDataKeyForStep(t.to)] = TRUE]
        /\ effects' = effects \cup {<<t.tid, "particles">>}
        /\ animationPlaying' = FALSE
        /\ timers' = (timers \ {t}) \cup
             { Tween(t.tid, t.from, t.to, getDataKeyForStep(t.from), 0,
                     Part0FadeOutLen, Part0FadeOutLen),
               Timer("p0Swap", t.tid, t.from, t.to, t.key, 0, Part0SwapAt),
               Timer("p0Cleanup", t.tid, t.from, t.to, t.key, 0, Part0CleanupAt) }
        /\ last' = Did("timelineComplete", t.to)
        /\ UNCHANGED << currentStep, opacity, resetTimeout, uiVars, calls, faults >>

\* lines 267-304 of transitionMolecules: the callback at duration * 0.8 and the
\* fade-in that starts there; the fade-out placed before it has been rendered
part0_swap ==
    \E t \in timers :
        /\ t.kind = "p0Swap" /\ Due(t)
        /\ ~ \E w \in timers : w.kind = "tween" /\ w.tid = t.tid /\ Due(w)
        /\ groupVisible' =
              [groupVisible EXCEPT ![getDataKeyForStep(t.from)] = FALSE,
                                   ![getDataKeyForStep(t.to)] = TRUE]
        /\ flagVisible' =
              [flagVisible EXCEPT ![getDataKeyForStep(t.from)] = FALSE,
                                  ![getDataKeyForStep(t.to)] = TRUE]
        /\ opacity' = [opacity EXCEPT ![getDataKeyForStep(t.from)] = 1,
                                      ![getDataKeyForStep(t.to)] = 0]
        /\ timers' = (timers \ {t}) \cup
             { Tween(t.tid, t.from, t.to, getDataKeyForStep(t.to), 1,
                     Part0FadeInLen, Part0FadeInLen) }
        /\ last' = Did("swap", t.to)
        /\ UNCHANGED << currentStep, animationPlaying, resetTimeout, effects,
                        uiVars, calls, faults >>

\* lines 257-263 of transitionMolecules
part0_cleanup ==
    \E t \in timers :
        /\ t.kind = "p0Cleanup" /\ Due(t)
        /\ effects' = effects \ {<<t.tid, "particles">>}
        /\ timers' = timers \ {t}
        /\ last' = Did("cleanup", t.to)
        /\ UNCHANGED << currentStep, animationPlaying, groupVisible, flagVisible,
                        opacity, resetTimeout, uiVars, calls, faults >>

\* the clock of this revision: its frames write no visibility
part0_Tick ==
    /\ Elapse
    /\ UNCHANGED << groupVisible, flagVisible >>

part0_Next ==
    \/ part0_nextStep
    \/ part0_previousStep
    \/ \E step \in Targets : part0_showStep(step)
    \/ part0_timelineComplete
    \/ part0_swap
    \/ part0_cleanup
    \/ WatchdogTimer
    \/ TweenDone
    \/ part0_Tick

part0_Spec == part0_Init /\ [][part0_Next]_vars

\* the page alone: any number of clicks on the two buttons
ProgramNext ==
    \/ nextStep
    \/ previousStep
    \/ Callbacks

ProgramSpec == Init /\ [][ProgramNext]_vars

\* the engine as a set of global functions: at most MaxCalls requests, each a
\* click or a direct call
Next ==
    \/ callNextStep
    \/ callPreviousStep
    \/ \E step \in Targets : showStep(step)
    \/ \E step \in Targets : showStepImplementation(step)
    \/ Callbacks
    \/ TimelineCallbacks

Spec == Init /\ [][Next]_vars

\* A due callback is run (or, for a completion, is lost) and the clock goes on:
\* the browser's event loop leaves no due timer waiting for ever.
TimerFires ==
    \/ SwapTimer
    \/ FadeInTimer
    \/ CompleteTimer
    \/ WatchdogTimer
    \/ TweenDone
    \/ TlSwap
    \/ TlFadeIn
    \/ TlCleanup
    \/ TlComplete
    \/ CompletionLost

FairSpec == Spec /\ WF_vars(Tick) /\ WF_vars(TimerFires)

(***************************************************************************)
(* Properties                                                              *)
(***************************************************************************)
InRange == 0 .. totalSteps

\* C1: a showStep / showStepImplementation call for a target in 0..3 made
\* while animationPlaying is true is dropped: currentStep, the busy flag, the
\* visibility of every molecule, the pending timers and everything else the
\* program holds are the same after the call as before it.
C1_BusyCallIsDropped ==
    [][\A step \in InRange :
          (part0_showStep(step) /\ animationPlaying) => UNCHANGED progVars]_vars

\* the state after a call made while busy that started a second timeline
C1_BusyCallTookEffect ==
    /\ last.op = "showStep" /\ last.busy /\ last.arg \in InRange
    /\ \E t \in timers : t.kind = "p0Timeline" /\ t.to = last.arg /\ t.tid = resetTimeout
    /\ \E t \in timers : t.kind = "p0Timeline" /\ t.tid # resetTimeout

\* C2: no two transitions run concurrently: the fade, swap and completion
\* callbacks pending at any moment all belong to one transition, so a new
\* transition never starts while those of an earlier one are pending.
C2_OneTransitionAtATime ==
    \A a, b \in timers :
        (a.kind # "watchdog" /\ b.kind # "watchdog") => a.tid = b.tid

\* a click has started a transition while a fade-in tween of the one before
\* it is still running
C2_Overlap ==
    /\ last.op = "nextStep" /\ ~last.busy
    /\ \E a, b \in timers :
          /\ a.kind = "tween" /\ a.target = 1
          /\ b.kind = "swap" /\ b.tid # a.tid
          /\ a.key = getDataKeyForStep(b.from)

\* C3: whenever the busy flag is true it eventually becomes false again, also
\* when the completion callback of the transition never fires: the watchdog
\* armed by the transition clears it.
C3_BusyEventuallyCleared == animationPlaying ~> ~animationPlaying

\* the watchdog has cleared a busy flag that a lost completion left set
C3_WatchdogClearedBusy ==
    /\ last.op = "watchdog" /\ last.busy /\ ~animationPlaying
    /\ faults > 0

\* C4: once the completion callback of a request for an in-range target
\* different from the step current before the call has fired, currentStep is
\* that target and the busy flag is false.
C4_CompletedAtTarget ==
    last.op \in {"complete", "tlComplete", "timelineComplete"}
        => (currentStep = last.arg /\ ~animationPlaying)

\* the completion callback has fired and currentStep is not the target
C4_CompletedElsewhere ==
    /\ last.op = "timelineComplete"
    /\ last.arg \in InRange
    /\ currentStep # last.arg
    /\ ~animationPlaying

\* C5: a showStep / showStepImplementation call for a target outside 0..3
\* leaves currentStep and the busy flag unchanged and arms no timer.
C5_OutOfRangeIgnored ==
    [][\A step \in Targets \ InRange :
          (showStep(step) \/ showStepImplementation(step))
              => UNCHANGED << currentStep, animationPlaying, timers >>]_vars

\* showStep(4) has been taken as the current step
C5_OutOfRangeTaken ==
    /\ last.op = "showStep" /\ last.arg = totalSteps + 1
    /\ currentStep = totalSteps + 1

\* C6: when nextStep() is issued twice back-to-back from step 0, with no timer
\* or callback in between, the first call starts the transition and the
\* second has no effect: the step ends at 1, never 2.
C6_SecondCallDropped ==
    [][(part0_nextStep /\ last.op = "nextStep" /\ last.was = 0 /\ ~last.busy)
          => (UNCHANGED progVars /\ currentStep' = 1)]_vars

\* two calls in a row from step 0 have ended at step 2
C6_DoubleAdvance ==
    /\ last.op = "nextStep" /\ last.prevOp = "nextStep"
    /\ last.prevWas = 0 /\ last.was = 1
    /\ currentStep = 2

\* C7: while a transition from step a to step b is in progress (the busy flag
\* is true and its completion callback has not fired), currentStep is a.
C7_StepHeldUntilCompletion ==
    \A t \in timers :
        (animationPlaying /\ t.kind \in {"fadeIn", "complete"})
            => currentStep = t.from

\* nextStep() has returned, the transition has just begun and currentStep is
\* already its target
C7_StepAlreadyMoved ==
    /\ last.op = "nextStep" /\ ~last.busy /\ animationPlaying
    /\ currentStep = last.was + 1
    /\ \E t \in timers : t.kind = "fadeIn" /\ t.from = last.was /\ t.to = currentStep

\* C8: in every state the page reaches by clicks on the two buttons and timer
\* callbacks, currentStep is an integer in 0..3.
C8_StepInRange == currentStep \in InRange

\* next was clicked at the last step, idle, and the step is still 3
C8_ClickedAtLastStep ==
    /\ last.op = "nextStep" /\ last.was = totalSteps /\ ~last.busy
    /\ currentStep = totalSteps

\* C9: nextStep() at step 3 and previousStep() at step 0 change nothing:
\* currentStep, the busy flag, the visibility of every molecule and the pending
\* timers stay as they were and no transition starts.
C9_ClampedCallsChangeNothing ==
    [][((nextStep /\ currentStep = totalSteps) \/ (previousStep /\ currentStep = 0))
          => UNCHANGED progVars]_vars

\* previous was clicked at step 0, idle, after the page had left step 0 once
C9_ClickedAtFirstStep ==
    /\ last.op = "previousStep" /\ last.was = 0 /\ ~last.busy
    /\ last.prevOp = "complete"
    /\ currentStep = 0 /\ ~animationPlaying

\* C10: with the busy flag false, nextStep() at a step s < 3 hands the engine
\* the pair (from = s, to = s + 1) and previousStep() at a step s > 0 the pair
\* (from = s, to = s - 1): every callback the call arms belongs to that
\* transition, and it arms at least one.
C10_DelegatesPair ==
    [][/\ (part0_nextStep /\ ~animationPlaying /\ currentStep < totalSteps)
            => /\ timers' \ timers # {}
               /\ \A t \in timers' \ timers :
                     t.from = currentStep /\ t.to = currentStep + 1
       /\ (part0_previousStep /\ ~animationPlaying /\ currentStep > 0)
            => /\ timers' \ timers # {}
               /\ \A t \in timers' \ timers :
                     t.from = currentStep /\ t.to = currentStep - 1]_vars

\* nextStep() at a step s < 3 has handed the engine the pair (s + 1, s + 1)
C10_DelegatedSameStep ==
    /\ last.op = "nextStep" /\ ~last.busy /\ last.was < totalSteps
    /\ \E t \in timers :
          t.tid = resetTimeout /\ t.from = last.was + 1 /\ t.to = last.was + 1

\* the species whose group is rendered
VisibleSpecies == {k \in Species : groupVisible[k]}

\* the source and the destination of the transition started last, while its
\* safety timeout or one of its callbacks is pending
InFlightSpecies ==
    UNION {{getDataKeyForStep(t.from), getDataKeyForStep(t.to)} :
              t \in {u \in timers : u.tid = resetTimeout}}

C12_CompletionLeavesDestinationShown ==
    [][\A t \in timers :
          (/\ t.kind \in {"complete", "tlComplete"}
           /\ t \notin timers'
           /\ last'.op = t.kind
           /\ animationPlaying /\ ~animationPlaying')
          => /\ ~groupVisible'[getDataKeyForStep(t.from)]
             /\ groupVisible'[getDataKeyForStep(t.to)]
             /\ opacity'[getDataKeyForStep(t.to)] = 1
             /\ uiStep' = t.to
             /\ uiDataKey' = getDataKeyForStep(t.to)]_vars

\* the completion handler has run while the fade-in of the destination is
\* still on its way
C12_CompletedWhileFading ==
    /\ last.op = "complete" /\ ~animationPlaying
    /\ groupVisible[getDataKeyForStep(last.arg)]
    /\ opacity[getDataKeyForStep(last.arg)] = Partial
    /\ \E t \in timers : t.kind = "tween" /\ t.target = 1
                         /\ t.key = getDataKeyForStep(last.arg)

\* the callbacks of one engine call that are still pending
PendingOf(tid, kinds) == {t \in timers : t.tid = tid /\ t.kind \in kinds}

\* a fade-out tween that is still waiting for its start
FadeOutWaiting(t) == t.kind = "tween" /\ t.target = 0 /\ t.left > t.run

C14_OnlySourceAndDestinationAtStart ==
    [][(/\ calls' # calls
        /\ last'.op = "showStepImplementation"
        /\ ~animationPlaying /\ animationPlaying'
        /\ currentStep \in InRange)
       => \A k \in Species :
             groupVisible'[k] => k \in {getDataKeyForStep(currentStep),
                                        getDataKeyForStep(last'.arg)}]_vars

\* a transition of showStepImplementation has just started from an idle,
\* in-range step and a third species is on screen
C14_ThirdSpeciesAtStart ==
    /\ last.op = "showStepImplementation" /\ ~last.busy
    /\ last.was \in InRange /\ last.arg \in InRange /\ last.arg # last.was
    /\ \E t \in timers : t.kind = "tlComplete" /\ t.tid = resetTimeout
                            /\ t.left = ImplEndAt
    /\ \E k \in Species :
          /\ groupVisible[k]
          /\ k \notin {getDataKeyForStep(last.was), getDataKeyForStep(last.arg)}

\* C15: starting at step 0, three calls of next(), each issued after the
\* previous transition has completed, end at step 3 with the nitrosamine
\* visible, sodiumNitrite, nitrousAcid and the nitrosonium (decomposed) hidden,
\* the next button disabled and the previous button enabled: every next()
\* accepted below the last step advances by one step, and whenever the page
\* is idle at step 3 with every completion callback run it shows exactly that.
C15_ThreeNextsEndAtLastStep ==
    /\ [][(/\ last'.op = "nextStep" /\ last' # last
           /\ ~animationPlaying /\ currentStep < totalSteps)
          => /\ currentStep' = currentStep + 1
             /\ animationPlaying']_vars
    /\ []((currentStep = totalSteps /\ ~animationPlaying /\ faults = 0)
          => /\ groupVisible["nitrosamine"]
             /\ ~groupVisible["sodiumNitrite"]
             /\ ~groupVisible["nitrousAcid"]
             /\ ~groupVisible["decomposed"]
             /\ nextDisabled
             /\ ~prevDisabled)

\* the third transition has just completed
C15_ArrivedAtLastStep ==
    /\ last.op = "complete" /\ last.arg = totalSteps
    /\ currentStep = totalSteps /\ ~animationPlaying /\ faults = 0
    /\ groupVisible["nitrosamine"] /\ nextDisabled /\ ~prevDisabled

\* the species visible after startup: createMolecules() and showStep(0)
InitialVisibleSpecies == {"sodiumNitrite"}

\* C16: the round trip showStep(0) (the call of init()), showStep(3),
\* showStep(0), each completed, ends with the same visible species as the
\* initial state after startup, with currentStep = 0 and the busy flag false.
C16_RoundTripRestoresInitialView ==
    (/\ last.op = "showStep" /\ last.arg = 0 /\ last.was = totalSteps
     /\ last.prevOp = "showStep" /\ last.prevWas = 0)
    => /\ VisibleSpecies = InitialVisibleSpecies
       /\ currentStep = 0
       /\ ~animationPlaying

\* showStep(3) at step 0 and then showStep(0) have just run and were obeyed
C16_RoundTripDone ==
    /\ last.op = "showStep" /\ last.arg = 0 /\ last.was = totalSteps
    /\ last.prevOp = "showStep" /\ last.prevWas = 0
    /\ ~last.busy /\ calls = 2
    /\ currentStep = 0 /\ groupVisible["sodiumNitrite"]

\* C17: when the watchdog timer fires it sets the busy flag to false whatever
\* its value and changes nothing else: currentStep, the visibility and the
\* opacity of every molecule, the panel and every other pending callback stay
\* exactly as they were.
C17_WatchdogOnlyClearsBusy ==
    [][\A t \in timers :
          (t.kind = "watchdog" /\ t \notin timers' /\ last'.op = "watchdog")
          => /\ ~animationPlaying'
             /\ currentStep' = currentStep
             /\ groupVisible' = groupVisible
             /\ flagVisible' = flagVisible
             /\ opacity' = opacity
             /\ timers' = timers \ {t}
             /\ effects' = effects
             /\ uiVars' = uiVars]_vars

\* the watchdog has just released a transition whose completion never ran:
\* the panel still shows the step the transition left
C17_ReleasedByWatchdog ==
    /\ last.op = "watchdog" /\ last.busy /\ ~animationPlaying
    /\ uiStep # last.arg
    /\ groupVisible[getDataKeyForStep(last.arg)]

\* a programmatic request for the step the page is at, made while idle
Reinvoked(op) ==
    /\ calls' # calls
    /\ last'.op = op /\ last'.arg = currentStep
    /\ ~animationPlaying /\ currentStep \in InRange

\* C18: re-invoking the current step while idle plays the acknowledgement
\* animation and no cross-fade: the call sets the busy flag and leaves
\* currentStep and the set of visible species unchanged (the flag is cleared
\* later by the animation's own completion).
C18_ReinvokeAcknowledges ==
    [][(Reinvoked("showStep") \/ Reinvoked("showStepImplementation"))
       => /\ animationPlaying'
          /\ currentStep' = currentStep
          /\ VisibleSpecies' = VisibleSpecies]_vars

\* the current step was requested again while idle and the call has returned:
\* the page is idle and not one callback or tween is pending
C18_ReinvokedWithoutAnimation ==
    /\ last.op = "showStep" /\ last.arg = last.was /\ ~last.busy
    /\ last.was \in InRange
    /\ currentStep = last.was
    /\ ~animationPlaying
    /\ timers = {}

(***************************************************************************)
(* transitionBetweenSteps(fromStep, toStep) called for any pair of steps   *)
(***************************************************************************)
\* particles chosen by the destination alone
transitionParticlesByTarget(fromStep, toStep) ==
    IF toStep = 1 THEN "acid"
    ELSE IF toStep = 2 THEN "decomposition"
    ELSE IF toStep = 3 THEN "amine"
    ELSE "none"

\* the content of the particles group, lines 3997-4077
transitionParticles(fromStep, toStep) ==
    IF fromStep = 0 /\ toStep = 1 THEN "acid"
    ELSE IF fromStep = 1 /\ toStep = 2 THEN "decomposition"
    ELSE IF fromStep = 2 /\ toStep = 3 THEN "amine"
    ELSE "none"

\* a direct, programmatic call; the function neither reads nor writes
\* currentStep
callTransitionBetweenSteps(fromStep, toStep) ==
    /\ Counted
    /\ last' = Did("transitionBetweenSteps", toStep)
    /\ transitionBetweenSteps(fromStep, toStep)
    /\ UNCHANGED currentStep

JumpNext ==
    \/ \E fromStep \in InRange, toStep \in InRange :
          callTransitionBetweenSteps(fromStep, toStep)
    \/ Callbacks

JumpSpec == Init /\ [][JumpNext]_vars

\* the distance between two steps
Distance(a, b) == IF a < b THEN b - a ELSE a - b

C20_DataKeyIsTotalAndOneToOne ==
    /\ \A step \in Targets : getDataKeyForStep(step) \in Species
    /\ \A a \in InRange, b \in InRange :
          getDataKeyForStep(a) = getDataKeyForStep(b) => a = b
    /\ getDataKeyForStep(0) = "sodiumNitrite"
    /\ getDataKeyForStep(1) = "nitrousAcid"
    /\ getDataKeyForStep(2) = "decomposed"
    /\ getDataKeyForStep(3) = "nitrosamine"
    /\ uiDataKey = getDataKeyForStep(uiStep)
    /\ uiDataKey \in Species

\* showStep was given a step below the range and the panel shows the key the
\* function returned for it
C20_KeyOfStepOutsideRange ==
    /\ last.op = "showStep" /\ ~last.busy /\ last.arg = 0 - 1
    /\ uiStep = last.arg
    /\ uiDataKey = "sodiumNitrite"

(***************************************************************************)
(* The panel data, lines 20-70, and updateMoleculeData, line 2834          *)
(***************************************************************************)
\* the keys of the object literal SCIENTIFIC_DATA
SCIENTIFIC_DATA_keys ==
    {"sodiumNitrite", "nitrousAcid", "nitrosoniumIon", "nitrosamine"}

\* what updateMoleculeData(dataKey) writes into #molecular-properties
updateMoleculeData(dataKey) ==
    IF dataKey \in SCIENTIFIC_DATA_keys
      THEN "table"
      ELSE "No data available"

\* C21: for every step in 0..3 the panel data has a record for the step's
\* key: the panel of a step in range shows a property table, never the
\* fallback "No data available".
C21_PanelHasRecordForEveryStep ==
    uiStep \in InRange => updateMoleculeData(uiDataKey) = "table"

\* the transition to step 2 has completed and its panel shows the fallback
C21_NoDataAtStepTwo ==
    /\ last.op = "complete" /\ last.arg = 2
    /\ currentStep = 2 /\ ~animationPlaying
    /\ uiStep = 2 /\ uiDataKey = getDataKeyForStep(2)
    /\ updateMoleculeData(uiDataKey) = "No data available"

\* the text of #molecule-step-indicator, line 2957: "Step a/b" as << a, b >>
updateStepIndicator(step) == << step + 1, totalSteps + 1 >>

\* C22: the navigation controls are a projection of the step alone: for a
\* step in 0..3 the previous button is disabled exactly at step 0 and the
\* next button exactly at step 3, whatever the buttons were before, and the
\* step indicator shows step + 1 of 4.
C22_ButtonsProjectStep ==
    uiStep \in InRange =>
        /\ prevDisabled <=> uiStep = 0
        /\ nextDisabled <=> uiStep = 3
        /\ updateStepIndicator(uiStep) = << uiStep + 1, 4 >>

\* showStep(0) at step 3: both buttons have just changed their state
C22_ButtonsFlipped ==
    /\ last.op = "showStep" /\ last.arg = 0 /\ last.was = totalSteps
    /\ ~last.busy /\ last.prevOp = "showStep"
    /\ uiStep = 0 /\ prevDisabled /\ ~nextDisabled

\* C23: the disabled state of the two buttons is never consulted by the
\* engine: a direct call of nextStep, previousStep or showStep is obeyed or
\* dropped on the busy flag and the step bounds alone, so an in-range call
\* made while idle takes effect even if a button is disabled.
C23_ButtonsNeverConsulted ==
    [][/\ (calls' # calls /\ last'.op = "nextStep") =>
             IF ~animationPlaying /\ currentStep < totalSteps
               THEN currentStep' = currentStep + 1 /\ animationPlaying'
               ELSE UNCHANGED progVars
       /\ (calls' # calls /\ last'.op = "previousStep") =>
             IF ~animationPlaying /\ currentStep > 0
               THEN currentStep' = currentStep - 1 /\ animationPlaying'
               ELSE UNCHANGED progVars
       /\ (calls' # calls /\ last'.op = "showStep") =>
             IF ~animationPlaying
               THEN last'.arg \in InRange => currentStep' = last'.arg
               ELSE UNCHANGED progVars]_vars

\* nextStep() has just started a transition although #next-btn is disabled
C23_NextObeyedWhileDisabled ==
    /\ last.op = "nextStep" /\ ~last.busy
    /\ currentStep = last.was + 1 /\ animationPlaying
    /\ nextDisabled
    /\ \E t \in timers : t.kind = "swap" /\ t.tid = resetTimeout
                            /\ t.left = SwapDelay

\* the effect objects a transition has added to the scene and not removed
EffectsOf(tid) == {e \in effects : e[1] = tid}

\* C24: every transient effect object (particle group, flash) created by a
\* transition is off the scene by the time the transition completes: when a
\* completion callback clears the busy flag, no effect object of its
\* transition is attached any more.
C24_NoEffectLeftAtCompletion ==
    [][\A t \in timers :
          (/\ t.kind \in {"complete", "tlComplete"}
           /\ t \notin timers'
           /\ last'.op = t.kind
           /\ ~animationPlaying')
          => /\ EffectsOf(t.tid) # {}
             /\ {e \in effects' : e[1] = t.tid} = {}]_vars

\* the timeline of showStepImplementation has completed and the scene holds
\* no effect object
C24_SceneCleanAfterTimeline ==
    /\ last.op = "tlComplete" /\ ~animationPlaying
    /\ currentStep = last.arg
    /\ effects = {}

\* C26: the per-frame render tick animate() can run in every state, busy or
\* not, and leaves currentStep, the busy flag, the visibility of every
\* molecule visual and the set of effect objects unchanged.
C26_FrameTickWritesNothing ==
    [][animate => /\ currentStep' = currentStep
                  /\ animationPlaying' = animationPlaying
                  /\ groupVisible' = groupVisible
                  /\ effects' = effects]_vars

\* nextStep() has hidden the stomach with every visual but the source, and a
\* frame rendered before any callback has made it visible again
C26_FrameShowedStomach ==
    /\ last.op = "nextStep" /\ ~last.busy /\ animationPlaying
    /\ \E t \in timers : t.kind = "swap" /\ t.tid = resetTimeout
                            /\ t.left = SwapDelay
    /\ groupVisible["stomach"]

\* C27: the shared stomach environment is visible in every reachable state,
\* also immediately after showStep or transitionBetweenSteps has run and
\* before the next frame.
C27_StomachAlwaysVisible ==
    groupVisible["stomach"]

\* transitionBetweenSteps has just run and the stomach's group is hidden
C27_StomachHiddenByTransition ==
    /\ last.op = "nextStep" /\ ~last.busy /\ animationPlaying
    /\ currentStep = last.was + 1
    /\ groupVisible[getDataKeyForStep(last.was)]
    /\ ~groupVisible["stomach"]

\* C28: whenever the busy flag is false, the step shown by the title, the
\* step indicator, the data panel and the buttons is currentStep, also when
\* the flag was released by the watchdog and not by the completion callback.
C28_IdleUIShowsCurrentStep ==
    ~animationPlaying =>
        /\ uiStep = currentStep
        /\ uiDataKey = getDataKeyForStep(currentStep)
        /\ prevDisabled = PrevDisabledFor(currentStep)
        /\ nextDisabled = NextDisabledFor(currentStep)

\* the watchdog has released the flag after a click whose completion never
\* ran: currentStep is the target and the panel shows the step before it
C28_StalePanelAfterWatchdog ==
    /\ last.op = "watchdog" /\ last.busy /\ ~animationPlaying
    /\ currentStep = last.arg
    /\ uiStep # currentStep
    /\ uiDataKey # getDataKeyForStep(currentStep)

\* the safety timeouts that are armed
PendingWatchdogs == {t \in timers : t.kind = "watchdog"}

\* C29: in every state reached after an engine call has returned or a timer
\* callback has finished, a true busy flag implies a pending watchdog timer:
\* the flag is never left true with no timer that can clear it.
C29_BusyHasWatchdog ==
    animationPlaying => PendingWatchdogs # {}

\* the completion of a transition was lost: the page is busy and the watchdog
\* is the only timer left
C29_OnlyWatchdogLeft ==
    /\ animationPlaying
    /\ faults > 0
    /\ timers # {}
    /\ timers = PendingWatchdogs

\* C30: at most one watchdog timer is pending, it is the one whose handle
\* window.animationResetTimeout holds, i.e. the one of the transition started
\* last, and when a watchdog fires no callback of another transition is
\* pending: a watchdog armed by an earlier transition, also one left pending
\* after that transition completed, never clears the busy flag during a later
\* transition.
C30_OneWatchdogOfLatestTransition ==
    /\ [](/\ Cardinality(PendingWatchdogs) <= 1
          /\ \A w \in PendingWatchdogs : w.tid = resetTimeout)
    /\ [][\A w \in PendingWatchdogs :
             (w \notin timers' /\ last'.op = "watchdog")
             => \A u \in timers \ {w} : u.tid = w.tid]_vars

\* right after the first transition completed, with its watchdog still
\* pending, a click has started the second one: one fresh watchdog is armed
C30_SecondTransitionRearmed ==
    /\ last.op = "nextStep" /\ ~last.busy /\ last.prevOp = "complete"
    /\ animationPlaying /\ faults = 0
    /\ \E w \in timers : /\ PendingWatchdogs = {w}
                         /\ w.left = WatchdogDelay
                         /\ w.tid = resetTimeout

====
